---- MODULE Spec2Model ----
(***************************************************************************)
(* A model of the AIListHub ingestion script (src/main.py): the two source *)
(* fetchers, the deduplication loop of main(), the description generator,  *)
(* process_candidate, upsert_tool and the `tools` table they write.        *)
(*                                                                         *)
(* A text value (a Python str) is a sequence of tokens: a token is a       *)
(* one-element string, either a character that the code inspects (" ",     *)
(* "\n", "g", ...) or an opaque word ("Open-source").  The empty str is    *)
(* <<>>; a key that a dict does not hold is a field the record lacks.      *)
(***************************************************************************)
EXTENDS Integers, Sequences, FiniteSets, TLC

\* ------------------------------------------------------------------ bounds
\* max_items handed to fetch_from_github_trending / fetch_from_rss by main()
\* (5 and 5 in the source), scaled down.
MaxGithubItems == 2
MaxRssItems == 1
\* the wall clock read by NOW() runs over 1..MaxNow
MaxNow == 2
\* the calls of process_candidate made by the loop on any candidates
MaxCalls == 2
\* the upsert_tool calls made by each of the overlapping runs
MaxUpserts == 1

\* ------------------------------------------------------------------ text
SeqsUpTo(S, n) == UNION {[1..k -> S] : k \in 0..n}

IsSpace(c) == c \in {" ", "\n"}

RECURSIVE lstrip(_)
lstrip(s) == IF s # <<>> /\ IsSpace(Head(s)) THEN lstrip(Tail(s)) ELSE s

RECURSIVE rstrip(_)
rstrip(s) ==
  IF s # <<>> /\ IsSpace(s[Len(s)]) THEN rstrip(SubSeq(s, 1, Len(s) - 1)) ELSE s

\* str.strip()
strip(s) == rstrip(lstrip(s))

\* re.sub(r'\n+', '\n', text)
RECURSIVE collapse_newlines(_)
collapse_newlines(s) ==
  IF Len(s) < 2 THEN s
  ELSE IF s[1] = "\n" /\ s[2] = "\n" THEN collapse_newlines(Tail(s))
  ELSE <<Head(s)>> \o collapse_newlines(Tail(s))

\* dict.get(key) or default
GetOr(d, key, default) ==
  IF key \in DOMAIN d /\ d[key] # <<>> THEN d[key] ELSE default

\* dict.get(key, default)
GetDefault(d, key, default) == IF key \in DOMAIN d THEN d[key] ELSE default

\* ------------------------------------------------------------------ fetchers
NoTag == <<"<no tag>">>
NoAttr == <<"<no attr>">>

GithubBase == <<"g">>
FeedUrl == <<"https://www.producthunt.com/feed">>

\* urljoin("https://github.com", href) for a relative href: the base followed
\* by the path.
urljoin(base, href) == base \o href

FailedStatuses == {"unreachable", "timeout", "http_error"}

\* One <article class="Box-row"> of the trending page: whether it has an <h2>,
\* an <a> in it (with its href and text), and a <p> (with its text).
GithubHrefs == {<<>>, <<" ">>}
GithubNames == {<<"A">>, <<"B">>}
WellFormedArticles ==
  {[h2 |-> TRUE, a |-> TRUE, href |-> h, text |-> n, p |-> <<"d">>] :
      h \in GithubHrefs, n \in GithubNames}
BrokenArticles ==
  { [h2 |-> FALSE, a |-> TRUE, href |-> <<>>, text |-> <<"A">>, p |-> <<"d">>],
    [h2 |-> TRUE, a |-> FALSE, href |-> NoAttr, text |-> <<>>, p |-> NoTag],
    [h2 |-> TRUE, a |-> TRUE, href |-> NoAttr, text |-> <<"A">>, p |-> <<"d">>] }
Articles == WellFormedArticles \cup BrokenArticles

GithubResponses ==
  {[status |-> s, body |-> <<>>] : s \in FailedStatuses} \cup
  {[status |-> "ok", body |-> b] : b \in SeqsUpTo(Articles, MaxGithubItems)}

\* One <item> of the feed: its <title>, <link> and <description>, if any.
RssLinks == {<<" ">>, <<" ", "g", "g">>}
WellFormedItems ==
  {[title |-> <<"C">>, link |-> l, description |-> <<"d">>] : l \in RssLinks}
BrokenItems ==
  { [title |-> NoTag, link |-> <<"g">>, description |-> NoTag],
    [title |-> <<"C">>, link |-> NoTag, description |-> <<"d">>] }
Items == WellFormedItems \cup BrokenItems

RssResponses ==
  {[status |-> s, body |-> <<>>] : s \in FailedStatuses} \cup
  {[status |-> "ok", body |-> b] : b \in SeqsUpTo(Items, MaxRssItems)}

\* a_tag['href'] on a title link without that attribute raises KeyError
RepoRaises(repo) == repo.h2 /\ repo.a /\ repo.href = NoAttr

RepoEntry(repo) ==
  [ name |-> IF repo.a THEN repo.text ELSE <<>>,
    url |-> IF repo.a THEN urljoin(GithubBase, repo.href) ELSE <<>>,
    category |-> <<"Open-source">>,
    logo |-> <<>>,
    source |-> <<"github_trending">>,
    short |-> IF repo.p = NoTag THEN <<>> ELSE repo.p ]

\* The loop over repos: stops with raised = TRUE at the first entry that raises.
RECURSIVE GithubLoop(_, _)
GithubLoop(repos, results) ==
  IF repos = <<>> THEN [raised |-> FALSE, results |-> results]
  ELSE LET repo == Head(repos) IN
    IF ~repo.h2 THEN GithubLoop(Tail(repos), results)
    ELSE IF RepoRaises(repo) THEN [raised |-> TRUE, results |-> results]
    ELSE GithubLoop(Tail(repos), Append(results, RepoEntry(repo)))

\* (mutant) an exception in the loop returns the entries built so far
fetch_from_github_trending_partial(resp, max_items) ==
  IF resp.status # "ok" THEN <<>>
  ELSE GithubLoop(SubSeq(resp.body, 1, IF Len(resp.body) < max_items
                                       THEN Len(resp.body) ELSE max_items),
                  <<>>).results

fetch_from_github_trending(resp, max_items) ==
  IF resp.status # "ok" THEN <<>>
  ELSE LET repos == SubSeq(resp.body, 1, IF Len(resp.body) < max_items
                                          THEN Len(resp.body) ELSE max_items)
           out == GithubLoop(repos, <<>>)
       IN IF out.raised THEN <<>> ELSE out.results

ItemEntry(item, feed_url) ==
  [ name |-> IF item.title = NoTag THEN <<>> ELSE item.title,
    url |-> IF item.link = NoTag THEN <<>> ELSE item.link,
    category |-> <<"Unknown">>,
    logo |-> <<>>,
    source |-> feed_url,
    short |-> IF item.description = NoTag THEN <<>> ELSE item.description ]

fetch_from_rss(resp, feed_url, max_items) ==
  IF resp.status # "ok" THEN <<>>
  ELSE LET items == SubSeq(resp.body, 1, IF Len(resp.body) < max_items
                                          THEN Len(resp.body) ELSE max_items)
       IN [i \in 1..Len(items) |-> ItemEntry(items[i], feed_url)]

\* ------------------------------------------------------------------ dedupe
\* main(), the loop over candidates with `seen` and `final`
\* (mutant) `seen` holds the urls as written, not trimmed
RECURSIVE DedupeLoop_raw_seen(_, _, _)
DedupeLoop_raw_seen(cands, seen, final_) ==
  IF cands = <<>> THEN final_
  ELSE LET c == Head(cands)
           raw == GetDefault(c, "url", <<>>)
       IN IF strip(raw) = <<>> THEN DedupeLoop_raw_seen(Tail(cands), seen, final_)
          ELSE IF raw \in seen THEN DedupeLoop_raw_seen(Tail(cands), seen, final_)
          ELSE DedupeLoop_raw_seen(Tail(cands), seen \cup {raw}, Append(final_, c))

RECURSIVE DedupeLoop(_, _, _)
DedupeLoop(cands, seen, final_) ==
  IF cands = <<>> THEN final_
  ELSE LET c == Head(cands)
           url == strip(GetDefault(c, "url", <<>>))
       IN IF url = <<>> THEN DedupeLoop(Tail(cands), seen, final_)
          ELSE IF url \in seen THEN DedupeLoop(Tail(cands), seen, final_)
          ELSE DedupeLoop(Tail(cands), seen \cup {url}, Append(final_, c))

\* (mutant) blank urls are dropped, repeated urls are not
NonBlankUrl(c) == strip(GetDefault(c, "url", <<>>)) # <<>>
Dedupe_keeps_duplicates(cands) == SelectSeq(cands, NonBlankUrl)

Dedupe(cands) == DedupeLoop(cands, {}, <<>>)

\* ------------------------------------------------------------------ generator
\* What the generative API does with one request: where it fails, if it does,
\* and the text of its response.
ApiFaults == {"none", "configure", "GenerativeModel", "generate_content"}
ApiTexts == {<<" ", "t", "\n", "\n", "t", "\n">>, <<"\n">>}
ApiOutcomes ==
  {[fault |-> "none", text |-> t] : t \in ApiTexts} \cup
  {[fault |-> f, text |-> <<>>] : f \in ApiFaults \ {"none"}}

\* os.getenv("GEMINI_API_KEY"): unset, set to the empty string, or set
NoKey == <<"<unset>">>
ApiKeys == {NoKey, <<>>, <<"k">>}

\* The API calls the function makes before `api.fault` stops it.
ApiCallsMade(api) ==
  CASE api.fault = "configure" -> {"configure"}
    [] api.fault = "GenerativeModel" -> {"configure", "GenerativeModel"}
    [] OTHER -> {"configure", "GenerativeModel", "generate_content"}

\* (mutant) the gate tests `is None` only
generate_description_gemini_none_only(name, category, url, key, api) ==
  IF key = NoKey THEN [text |-> <<>>, calls |-> {}]
  ELSE IF api.fault # "none" THEN [text |-> <<>>, calls |-> ApiCallsMade(api)]
  ELSE [text |-> collapse_newlines(strip(api.text)), calls |-> ApiCallsMade(api)]

\* Returns the description and the set of API calls made on the way.
generate_description_gemini(name, category, url, key, api) ==
  IF key = NoKey \/ key = <<>> THEN [text |-> <<>>, calls |-> {}]
  ELSE IF api.fault # "none" THEN [text |-> <<>>, calls |-> ApiCallsMade(api)]
  ELSE [text |-> collapse_newlines(strip(api.text)), calls |-> ApiCallsMade(api)]

\* ------------------------------------------------------------------ storage
\* A row of `tools`; the table is the set of its rows.
RowOf(record, ts) ==
  [ name |-> record.name, url |-> record.url, category |-> record.category,
    description |-> record.description, logo_url |-> record.logo_url,
    tags |-> record.tags, source |-> record.source, updated_on |-> ts ]

\* The uniqueness constraint that ON DUPLICATE KEY fires on.
UniqueKey(row) == row.url

\* updated_on of a freshly inserted row: the INSERT names no value for it.
InsertDefaultUpdatedOn(ts) == ts

\* (mutant) the update leaves updated_on as it was
ExecuteUpsert_keeps_timestamp(tbl, record, ts) ==
  IF \E row \in tbl : UniqueKey(row) = record.url
  THEN {IF UniqueKey(row) = record.url THEN RowOf(record, row.updated_on) ELSE row :
          row \in tbl}
  ELSE tbl \cup {RowOf(record, InsertDefaultUpdatedOn(ts))}

\* (mutant) the update list lacks tags and source
ExecuteUpsert_partial(tbl, record, ts) ==
  IF \E row \in tbl : UniqueKey(row) = record.url
  THEN {IF UniqueKey(row) = record.url
        THEN [RowOf(record, ts) EXCEPT !.tags = row.tags, !.source = row.source]
        ELSE row : row \in tbl}
  ELSE tbl \cup {RowOf(record, InsertDefaultUpdatedOn(ts))}

\* UPSERT_SQL, executed at time ts
ExecuteUpsert(tbl, record, ts) ==
  IF \E row \in tbl : UniqueKey(row) = record.url
  THEN {IF UniqueKey(row) = record.url THEN RowOf(record, ts) ELSE row : row \in tbl}
  ELSE tbl \cup {RowOf(record, InsertDefaultUpdatedOn(ts))}

\* Where one upsert_tool call fails, if it does.
DbFaults == {"none", "connect", "cursor", "execute", "commit"}

\* (mutant) the dry-run test is missing
upsert_tool_ignores_dry_run(record, dry_run_, tbl, ts, fault) ==
  IF fault = "connect" THEN [ret |-> "raise", table |-> tbl, connects |-> 1]
  ELSE IF fault # "none" THEN [ret |-> "False", table |-> tbl, connects |-> 1]
  ELSE [ret |-> "True", table |-> ExecuteUpsert(tbl, record, ts), connects |-> 1]

\* ret: "True", "False", or "raise" when the exception leaves the function;
\* connects: the connections opened (attempted) by the call.
upsert_tool(record, dry_run_, tbl, ts, fault) ==
  IF dry_run_ THEN [ret |-> "True", table |-> tbl, connects |-> 0]
  ELSE IF fault = "connect" THEN [ret |-> "raise", table |-> tbl, connects |-> 1]
  ELSE IF fault # "none" THEN [ret |-> "False", table |-> tbl, connects |-> 1]
  ELSE [ret |-> "True", table |-> ExecuteUpsert(tbl, record, ts), connects |-> 1]

\* ------------------------------------------------------------------ process_candidate
\* (mutant) a description the candidate has is not looked at
NeedsDescription_ignores_existing(cand, generate_desc_) == generate_desc_

\* if not description and generate_desc
NeedsDescription(cand, generate_desc_) ==
  GetOr(cand, "description", <<>>) = <<>> /\ generate_desc_

process_candidate(cand, generate_desc_, dry_run_, key, api, tbl, ts, fault) ==
  LET name == GetOr(cand, "name", <<>>)
      url == GetOr(cand, "url", <<>>)
      category == GetOr(cand, "category", GetOr(cand, "short", <<"Misc">>))
      logo == GetOr(cand, "logo", <<>>)
      source == GetOr(cand, "source", <<"unknown">>)
      tags == GetOr(cand, "tags", <<>>)
      invoked == NeedsDescription(cand, generate_desc_)
      gen == IF invoked
             THEN generate_description_gemini(name, category, url, key, api)
             ELSE [text |-> GetOr(cand, "description", <<>>), calls |-> {}]
      record == [ name |-> name, url |-> url, category |-> category,
                  description |-> gen.text, logo_url |-> logo, tags |-> tags,
                  source |-> source ]
      up == upsert_tool(record, dry_run_, tbl, ts, fault)
  IN [ cand |-> cand, invoked |-> invoked, calls |-> gen.calls, record |-> record,
       ret |-> up.ret, table |-> up.table, connects |-> up.connects ]

\* ------------------------------------------------------------------ state
VARIABLES
  pc,            \* where main() is: fetch_github, fetch_rss, dedupe, process, done, aborted
  response,      \* the HTTP response r received last
  gh_items,      \* main(): gh_items
  rss_items,     \* main(): rss_items
  final,         \* main(): final
  results,       \* one entry per process_candidate call made so far by the loop
  table,         \* the rows of `tools`
  table0,        \* the rows of `tools` when the run started
  now,           \* the wall clock that NOW() reads
  dry_run,       \* args.dry_run
  generate_desc, \* not args.no_desc
  api_key,       \* the environment's GEMINI_API_KEY
  api_calls,     \* the generative-API calls made by generate_description_gemini
  db_connects,   \* the number of get_db_connection() calls
  wpc,           \* overlapping runs: where each run's upsert_tool call is
  wrec,          \* overlapping runs: the record each run is upserting
  wts,           \* overlapping runs: NOW() of each run's executed statement
  wcalls,        \* overlapping runs: the upsert_tool calls each run has made
  commits        \* overlapping runs: the committed upserts, in commit order

raceVars == <<wpc, wrec, wts, wcalls, commits>>

vars == <<pc, response, gh_items, rss_items, final, results, table, table0, now,
          dry_run, generate_desc, api_key, api_calls, db_connects, raceVars>>

\* The invocations of the script that may overlap.
Runs == {1, 2}
NoRecord == [url |-> <<>>]

\* No overlapping run is inside upsert_tool.
RaceIdle ==
  /\ wpc = [w \in Runs |-> "idle"]
  /\ wrec = [w \in Runs |-> NoRecord]
  /\ wts = [w \in Runs |-> 0]
  /\ wcalls = [w \in Runs |-> 0]
  /\ commits = <<>>

NoResponse == [status |-> "none", body |-> <<>>]

\* A row left by an earlier run.
OldRow ==
  [ name |-> <<"old">>, url |-> <<"g">>, category |-> <<"old">>,
    description |-> <<"old">>, logo_url |-> <<"old">>, tags |-> <<"old">>,
    source |-> <<"old">>, updated_on |-> 0 ]
InitialTables == {{}, {OldRow}}

\* The command line and the environment a run starts with.
InitEnv ==
  /\ now = 1
  /\ dry_run \in BOOLEAN
  /\ generate_desc \in BOOLEAN
  /\ api_key \in ApiKeys
  /\ api_calls = {}
  /\ db_connects = 0
  /\ results = <<>>
  /\ response = NoResponse

\* main() is entered; the table is new.
Init ==
  /\ InitEnv
  /\ table = {}
  /\ table0 = table
  /\ RaceIdle
  /\ pc = "fetch_github"
  /\ gh_items = <<>>
  /\ rss_items = <<>>
  /\ final = <<>>

\* ------------------------------------------------------------------ main()
FetchGithub ==
  /\ pc = "fetch_github"
  /\ \E resp \in GithubResponses :
       /\ response' = resp
       /\ gh_items' = fetch_from_github_trending(resp, MaxGithubItems)
  /\ pc' = "fetch_rss"
  /\ UNCHANGED <<rss_items, final, results, table, table0, now, dry_run,
                 generate_desc, api_key, api_calls, db_connects, raceVars>>

FetchRss ==
  /\ pc = "fetch_rss"
  /\ \E resp \in RssResponses :
       /\ response' = resp
       /\ rss_items' = fetch_from_rss(resp, FeedUrl, MaxRssItems)
  /\ pc' = "dedupe"
  /\ UNCHANGED <<gh_items, final, results, table, table0, now, dry_run,
                 generate_desc, api_key, api_calls, db_connects, raceVars>>

DedupeStep ==
  /\ pc = "dedupe"
  /\ final' = Dedupe(gh_items \o rss_items)
  /\ pc' = IF final' = <<>> THEN "done" ELSE "process"
  /\ UNCHANGED <<response, gh_items, rss_items, results, table, table0, now,
                 dry_run, generate_desc, api_key, api_calls, db_connects, raceVars>>

\* The generator reaches the API only when it is invoked with a key, and the
\* database is reached only outside dry-run: only then is there an outcome to draw.
NoApi == [fault |-> "none", text |-> <<>>]
ApiReached(cand) ==
  NeedsDescription(cand, generate_desc) /\ api_key \notin {NoKey, <<>>}

\* One iteration of `for cand in final`: the whole process_candidate call.
Process ==
  /\ pc = "process"
  /\ Len(results) < Len(final)
  /\ LET cand == final[Len(results) + 1] IN
     \E api \in IF ApiReached(cand) THEN ApiOutcomes ELSE {NoApi},
        fault \in IF dry_run THEN {"none"} ELSE DbFaults :
       LET r == process_candidate(cand, generate_desc, dry_run, api_key, api,
                                  table, now, fault)
       IN /\ results' = Append(results,
                 [invoked |-> r.invoked, record |-> r.record, ret |-> r.ret])
          /\ table' = r.table
          /\ api_calls' = api_calls \cup r.calls
          /\ db_connects' = db_connects + r.connects
          /\ pc' = IF r.ret = "raise" THEN "aborted"
                   ELSE IF Len(results) + 1 = Len(final) THEN "done"
                   ELSE "process"
  /\ UNCHANGED <<response, gh_items, rss_items, final, table0, now, dry_run,
                 generate_desc, api_key, raceVars>>

Next == FetchGithub \/ FetchRss \/ DedupeStep \/ Process

Spec == Init /\ [][Next]_vars

\* ------------------------------------------------------------------ the loop on any candidates
\* process_candidate is also callable on candidates that no fetcher builds: with
\* a description, with tags, without category, logo or source.
CallUrls == {<<"g">>, <<"g", "g">>}
FetchedCands ==
  { [ name |-> <<"A">>, url |-> <<"g">>, category |-> <<"Unknown">>, logo |-> <<>>,
      source |-> FeedUrl, short |-> <<"d">> ],
    [ name |-> <<"B">>, url |-> <<"g", "g">>, category |-> <<>>, logo |-> <<"l">>,
      source |-> FeedUrl, short |-> <<"d">> ] }
DescribedCands ==
  { [ name |-> <<"A">>, url |-> <<"g">>, description |-> <<"D">>, tags |-> <<"x">> ],
    [ name |-> <<"B">>, url |-> <<"g">>, description |-> <<>>, source |-> FeedUrl ] }
CallCands == FetchedCands \cup DescribedCands

\* main() inside `for cand in final`, with any candidates in final.
InitCalls ==
  /\ InitEnv
  /\ table \in InitialTables
  /\ table0 = table
  /\ RaceIdle
  /\ pc = "process"
  /\ gh_items = <<>>
  /\ rss_items = <<>>
  /\ final \in SeqsUpTo(CallCands, MaxCalls) \ {<<>>}

\* The wall clock advances.
Tick ==
  /\ now < MaxNow
  /\ pc = "process"
  /\ now' = now + 1
  /\ UNCHANGED <<pc, response, gh_items, rss_items, final, results, table, table0,
                 dry_run, generate_desc, api_key, api_calls, db_connects, raceVars>>

NextCalls == Process \/ Tick

SpecCalls == InitCalls /\ [][NextCalls]_vars

\* ------------------------------------------------------------------ overlapping runs
\* Two invocations of the script, each inside its loop and each calling
\* upsert_tool, statement by statement.  A connection starts with autocommit
\* off: cur.execute() takes the lock of the row with the record's url and
\* conn.commit() publishes the statement's effect and releases the lock;
\* conn.close() without commit rolls back.
RecordOf(u, v) ==
  [ name |-> v, url |-> u, category |-> v, description |-> v, logo_url |-> v,
    tags |-> v, source |-> v ]
RaceRecords ==
  {RecordOf(<<"g">>, <<"1">>), RecordOf(<<"g">>, <<"2">>),
   RecordOf(<<"g", "g">>, <<"1">>)}

InitRace ==
  /\ table \in InitialTables
  /\ table0 = table
  /\ now = 1
  /\ dry_run = FALSE
  /\ generate_desc = FALSE
  /\ api_key = NoKey
  /\ api_calls = {}
  /\ db_connects = 0
  /\ results = <<>>
  /\ response = NoResponse
  /\ RaceIdle
  /\ pc = "process"
  /\ gh_items = <<>>
  /\ rss_items = <<>>
  /\ final = <<>>

mainVars == <<pc, response, gh_items, rss_items, final, results, table0, dry_run,
              generate_desc, api_key, api_calls>>

\* The row that run w's statement touches is locked by no other run.
LockFree(w) ==
  \A v \in Runs \ {w} : ~(wpc[v] = "executed" /\ wrec[v].url = wrec[w].url)

\* upsert_tool: conn = get_db_connection(); an exception here leaves the function.
Connect(w) ==
  /\ wpc[w] = "idle"
  /\ wcalls[w] < MaxUpserts
  /\ \E rec \in RaceRecords, ok \in BOOLEAN :
       /\ wpc' = [wpc EXCEPT ![w] = IF ok THEN "connected" ELSE "aborted"]
       /\ wrec' = [wrec EXCEPT ![w] = IF ok THEN rec ELSE NoRecord]
  /\ wcalls' = [wcalls EXCEPT ![w] = @ + 1]
  /\ db_connects' = db_connects + 1
  /\ UNCHANGED <<mainVars, table, now, wts, commits>>

\* upsert_tool: cur = conn.cursor(); cur.execute(UPSERT_SQL, ...).  On an
\* exception (a lock wait that times out is one): log, close, return False.
Execute(w) ==
  /\ wpc[w] = "connected"
  /\ \E fault \in {"none", "cursor", "execute"} :
       /\ fault = "none" => LockFree(w)
       /\ wpc' = [wpc EXCEPT ![w] = IF fault = "none" THEN "executed" ELSE "idle"]
       /\ wts' = [wts EXCEPT ![w] = IF fault = "none" THEN now ELSE 0]
       /\ wrec' = [wrec EXCEPT ![w] = IF fault = "none" THEN @ ELSE NoRecord]
  /\ UNCHANGED <<mainVars, table, now, db_connects, wcalls, commits>>

\* upsert_tool: conn.commit(), then cur.close(), return True and conn.close();
\* on an exception: log, return False, and conn.close() rolls back.
Commit(w) ==
  /\ wpc[w] = "executed"
  /\ \E ok \in BOOLEAN :
       /\ table' = IF ok THEN ExecuteUpsert(table, wrec[w], wts[w]) ELSE table
       /\ commits' =
            IF ok
            THEN Append(commits,
                   [run |-> w, record |-> wrec[w],
                    overlapped |-> \E v \in Runs \ {w} :
                        wpc[v] = "connected" /\ wrec[v].url = wrec[w].url])
            ELSE commits
  /\ wpc' = [wpc EXCEPT ![w] = "idle"]
  /\ wts' = [wts EXCEPT ![w] = 0]
  /\ wrec' = [wrec EXCEPT ![w] = NoRecord]
  /\ UNCHANGED <<mainVars, now, db_connects, wcalls>>

RaceTick ==
  /\ now < MaxNow
  /\ now' = now + 1
  /\ UNCHANGED <<mainVars, table, db_connects, raceVars>>

NextRace ==
  \/ \E w \in Runs : Connect(w)
  \/ \E w \in Runs : Execute(w)
  \/ \E w \in Runs : Commit(w)
  \/ RaceTick

SpecRace == InitRace /\ [][NextRace]_vars

\* ------------------------------------------------------------------ properties of main()
\* main(): candidates, the GitHub items followed by the RSS items
candidates == gh_items \o rss_items

TrimmedUrl(c) == strip(c.url)

\* The positions of the first occurrence of every non-blank trimmed url.
FirstIdx(cands) ==
  {i \in 1..Len(cands) :
     /\ TrimmedUrl(cands[i]) # <<>>
     /\ \A j \in 1..(i - 1) : TrimmedUrl(cands[j]) # TrimmedUrl(cands[i])}

Deduplicated == pc \in {"process", "done", "aborted"}

\* C1: after the deduplication loop, final is the subsequence of the candidates
\* made of the first occurrence of every non-blank trimmed url, in input order;
\* no two of its elements have the same trimmed url and none has a blank url.
C1_DedupeFirstSeen ==
  Deduplicated =>
    LET I == FirstIdx(candidates) IN
    /\ Len(final) = Cardinality(I)
    /\ \A i \in I : final[Cardinality({j \in I : j <= i})] = candidates[i]
    /\ \A k, l \in 1..Len(final) :
         k # l => TrimmedUrl(final[k]) # TrimmedUrl(final[l])
    /\ \A k \in 1..Len(final) : TrimmedUrl(final[k]) # <<>>

\* A duplicate that differs from its first occurrence only by whitespace, and a
\* blank url, have both been dropped.
C1_Witness ==
  /\ Deduplicated
  /\ Len(final) = 1
  /\ \E i, j \in 1..Len(candidates) :
       /\ i < j
       /\ candidates[i].url # candidates[j].url
       /\ TrimmedUrl(candidates[i]) = TrimmedUrl(candidates[j])
       /\ TrimmedUrl(candidates[i]) # <<>>
  /\ \E i \in 1..Len(candidates) :
       candidates[i].url # <<>> /\ TrimmedUrl(candidates[i]) = <<>>

\* C2: outside dry-run no upsert_tool call lets an exception out: every call
\* made by the run returned True or False.
C2_UpsertNeverRaises ==
  ~dry_run => \A i \in 1..Len(results) : results[i].ret # "raise"

\* C3: a run that has stopped has called process_candidate on every
\* deduplicated candidate and has ended normally.
C3_RunProcessesAllCandidates ==
  pc \in {"done", "aborted"} => pc = "done" /\ Len(results) = Len(final)

\* C4: in a dry run the table is the one the run started with, no connection
\* has been opened and every upsert_tool call returned True.
C4_DryRunLeavesStorage ==
  dry_run =>
    /\ table = table0
    /\ db_connects = 0
    /\ \A i \in 1..Len(results) : results[i].ret = "True"

\* A dry run over two candidates, the first with the url of a row that the
\* table held, has finished.
C4_Witness ==
  /\ dry_run /\ pc = "done" /\ Len(results) = 2
  /\ \E row \in table0 : row.url = results[1].record.url

KeyMissing == api_key = NoKey \/ api_key = <<>>

\* C7: while GEMINI_API_KEY is unset or empty, every generator invocation has
\* returned the empty string and the generator has made no API call.
C7_CredentialGate ==
  KeyMissing =>
    /\ api_calls = {}
    /\ \A i \in 1..Len(results) :
         results[i].invoked => results[i].record.description = <<>>

\* The generator has been invoked with the key set to the empty string.
C7_Witness ==
  api_key = <<>> /\ \E i \in 1..Len(results) : results[i].invoked

\* C8: a finished run outside dry-run, started on an empty table, whose upserts
\* all succeeded, leaves one row per distinct non-blank trimmed candidate url,
\* and that row has the name, url, category, logo and source of the first
\* candidate with that trimmed url.
C8_OneRowPerUrl ==
  ( /\ pc = "done"
    /\ ~dry_run
    /\ table0 = {}
    /\ \A i \in 1..Len(results) : results[i].ret = "True" )
  =>
    LET I == FirstIdx(candidates) IN
    /\ Cardinality(table) = Cardinality(I)
    /\ \A i \in I :
         LET rows == {row \in table : strip(row.url) = TrimmedUrl(candidates[i])}
         IN /\ Cardinality(rows) = 1
            /\ \A row \in rows :
                 /\ row.name = candidates[i].name
                 /\ row.url = candidates[i].url
                 /\ row.category = candidates[i].category
                 /\ row.logo_url = candidates[i].logo
                 /\ row.source = candidates[i].source

\* Two GitHub candidates with one url and different names, and an RSS candidate
\* with another url, have been persisted as two rows.
C8_Witness ==
  /\ pc = "done" /\ ~dry_run /\ table0 = {}
  /\ \A i \in 1..Len(results) : results[i].ret = "True"
  /\ Len(gh_items) = 2 /\ Len(rss_items) = 1
  /\ gh_items[1].url = gh_items[2].url
  /\ gh_items[1].name # gh_items[2].name
  /\ TrimmedUrl(rss_items[1]) \notin {<<>>, TrimmedUrl(gh_items[1])}
  /\ Cardinality(table) = 2

\* ------------------------------------------------------------------ properties of the fetchers
FetchFailed(resp) == resp.status \in FailedStatuses

\* Some tag or attribute that the extraction reads is missing from the body.
GithubTagMissing(resp) ==
  \E i \in 1..Len(resp.body) :
    LET x == resp.body[i] IN ~x.h2 \/ ~x.a \/ x.href = NoAttr \/ x.p = NoTag
RssTagMissing(resp) ==
  \E i \in 1..Len(resp.body) :
    LET x == resp.body[i] IN
      x.title = NoTag \/ x.link = NoTag \/ x.description = NoTag

\* The extraction raises: a title link without an href.
GithubExtractionRaises(resp) ==
  \E i \in 1..Len(resp.body) :
    LET x == resp.body[i] IN x.h2 /\ x.a /\ x.href = NoAttr

HasH2(x) == x.h2

\* C6 as claimed: each fetch step hands control to the next stage of main(), and
\* a failed request, a missing tag or a missing attribute gives the empty list.
C6_EmptyOnAnyMissingTag ==
  [][ /\ pc = "fetch_github" =>
          /\ pc' = "fetch_rss"
          /\ (FetchFailed(response') \/ GithubTagMissing(response'))
               => gh_items' = <<>>
      /\ pc = "fetch_rss" =>
          /\ pc' = "dedupe"
          /\ (FetchFailed(response') \/ RssTagMissing(response'))
               => rss_items' = <<>>
    ]_vars

\* C6, amended: each fetch step hands control to the next stage of main(); a
\* failed request, or a title link without href, gives the empty list; otherwise
\* an article without <h2> is left out and every other article or item gives one
\* entry, in order, whose fields are empty where the tag is missing.
C6_FetcherResilience ==
  [][ /\ pc = "fetch_github" =>
          /\ pc' = "fetch_rss"
          /\ (FetchFailed(response') \/ GithubExtractionRaises(response'))
               => gh_items' = <<>>
          /\ ~(FetchFailed(response') \/ GithubExtractionRaises(response')) =>
               LET kept == SelectSeq(response'.body, HasH2) IN
               /\ Len(gh_items') = Len(kept)
               /\ \A k \in 1..Len(kept) :
                    /\ ~kept[k].a => gh_items'[k].name = <<>> /\ gh_items'[k].url = <<>>
                    /\ kept[k].a => gh_items'[k].name = kept[k].text
                    /\ kept[k].p = NoTag => gh_items'[k].short = <<>>
      /\ pc = "fetch_rss" =>
          /\ pc' = "dedupe"
          /\ UNCHANGED gh_items
          /\ FetchFailed(response') => rss_items' = <<>>
          /\ ~FetchFailed(response') =>
               /\ Len(rss_items') = Len(response'.body)
               /\ \A k \in 1..Len(rss_items') :
                    LET x == response'.body[k] IN
                    /\ x.title = NoTag => rss_items'[k].name = <<>>
                    /\ x.link = NoTag => rss_items'[k].url = <<>>
                    /\ x.link # NoTag => rss_items'[k].url = x.link
                    /\ x.description = NoTag => rss_items'[k].short = <<>>
    ]_vars

\* The second article of an answered request has a title link without href:
\* the GitHub fetch gave no item and main() is at the RSS fetch.
C6_Witness ==
  /\ pc = "fetch_rss"
  /\ response.status = "ok"
  /\ Len(response.body) = 2
  /\ ~GithubExtractionRaises([response EXCEPT !.body = SubSeq(response.body, 1, 1)])
  /\ response.body[1].h2
  /\ GithubExtractionRaises(response)
  /\ gh_items = <<>>

\* ------------------------------------------------------------------ properties of the upsert
SameFields(row, rec) ==
  /\ row.name = rec.name
  /\ row.category = rec.category
  /\ row.description = rec.description
  /\ row.logo_url = rec.logo_url
  /\ row.tags = rec.tags
  /\ row.source = rec.source

RowsFor(tbl, u) == {row \in tbl : row.url = u}

\* The last call of the loop that upserted url u successfully, 0 if none did.
LastOk(u) ==
  LET S == {i \in 1..Len(results) :
              results[i].ret = "True" /\ results[i].record.url = u}
  IN IF S = {} THEN 0 ELSE CHOOSE i \in S : \A j \in S : j <= i

\* After any successful upserts: one row per url at most, and the row of an
\* upserted url has the six fields of the last record upserted for it.
UpsertedRowsAreLatest ==
  ~dry_run =>
    \A u \in CallUrls :
      /\ Cardinality(RowsFor(table, u)) <= 1
      /\ LastOk(u) # 0 =>
           \E row \in RowsFor(table, u) : SameFields(row, results[LastOk(u)].record)

\* This step is a successful upsert of a record whose fields the row of its url
\* already has: the record is applied again.
AppliedAgain ==
  /\ ~dry_run
  /\ Len(results') = Len(results) + 1
  /\ results'[Len(results')].ret = "True"
  /\ \E old \in RowsFor(table, results'[Len(results')].record.url) :
       SameFields(old, results'[Len(results')].record)

\* C5 as claimed: after any successful upserts the table has at most one row per
\* url and an upserted url's row has the fields of the last record upserted for
\* it; applying a record again leaves one row for its url, whose updated_on is
\* later than it was.
C5_UpdatedOnStrictlyLater ==
  /\ []UpsertedRowsAreLatest
  /\ [][ AppliedAgain =>
           LET rec == results'[Len(results')].record IN
           \A old \in RowsFor(table, rec.url) :
             \E new \in table' :
               /\ RowsFor(table', rec.url) = {new}
               /\ SameFields(new, rec)
               /\ new.updated_on > old.updated_on
        ]_vars

\* C5, amended: after any successful upserts the table has at most one row per
\* url and an upserted url's row has the fields of the last record upserted for
\* it; applying a record again leaves one row for its url, whose updated_on is
\* the time NOW() of that application: never earlier than it was, and later
\* exactly when the clock has moved past the row's former updated_on.
C5_UpsertIdempotent ==
  /\ []UpsertedRowsAreLatest
  /\ [][ AppliedAgain =>
           LET rec == results'[Len(results')].record IN
           \A old \in RowsFor(table, rec.url) :
             \E new \in table' :
               /\ RowsFor(table', rec.url) = {new}
               /\ SameFields(new, rec)
               /\ new.updated_on = now
               /\ new.updated_on >= old.updated_on
               /\ (new.updated_on > old.updated_on) = (now > old.updated_on)
        ]_vars

\* The same record has been upserted by two successive calls, the clock having
\* advanced in between, and its url has one row, stamped with the later time.
C5_Witness ==
  /\ ~dry_run
  /\ Len(results) = 2
  /\ results[1].ret = "True" /\ results[2].ret = "True"
  /\ results[1].record = results[2].record
  /\ table0 = {}
  /\ now = 2
  /\ \E row \in table : table = {row} /\ row.updated_on = 2

\* ------------------------------------------------------------------ properties of process_candidate
HasDescription(cand) == "description" \in DOMAIN cand /\ cand.description # <<>>

\* C9: every process_candidate call invoked the generator exactly when its
\* candidate had no description and generation was on; with generation off no
\* API call was made and a candidate without description got the empty
\* description; a candidate's own description went into the record unchanged;
\* and the row of a url has the description of the last record upserted for it.
C9_DescriptionGating ==
  /\ \A i \in 1..Len(results) :
       /\ results[i].invoked = (~HasDescription(final[i]) /\ generate_desc)
       /\ ~generate_desc =>
            /\ ~results[i].invoked
            /\ ~HasDescription(final[i]) => results[i].record.description = <<>>
       /\ HasDescription(final[i]) =>
            results[i].record.description = final[i].description
  /\ ~generate_desc => api_calls = {}
  /\ ~dry_run =>
       \A u \in CallUrls :
         LastOk(u) # 0 =>
           \A row \in RowsFor(table, u) :
             row.description = results[LastOk(u)].record.description

\* With generation on and a key set, one call persisted a candidate's own
\* description and another called the API for a candidate that had none.
C9_Witness ==
  /\ generate_desc /\ ~dry_run /\ Len(results) = 2
  /\ final[1].url # final[2].url
  /\ \E i, j \in 1..2 :
       /\ HasDescription(final[i]) /\ results[i].ret = "True"
       /\ \E row \in table : row.description = final[i].description
       /\ results[j].invoked /\ "generate_content" \in api_calls

\* ------------------------------------------------------------------ properties of overlapping runs
RaceUrls == {rec.url : rec \in RaceRecords}

\* The last committed upsert of url u, 0 if there is none.
LastCommit(u) ==
  LET S == {i \in 1..Len(commits) : commits[i].record.url = u}
  IN IF S = {} THEN 0 ELSE CHOOSE i \in S : \A j \in S : j <= i

\* C10: whatever the interleaving of the two runs' statements and commits, a
\* url has at most one row, and once an upsert of it is committed it has
\* exactly one, whose six fields are those of the record committed last.
C10_LastWriteWins ==
  \A u \in RaceUrls :
    /\ Cardinality(RowsFor(table, u)) <= 1
    /\ LastCommit(u) # 0 =>
         \E row \in RowsFor(table, u) : SameFields(row, commits[LastCommit(u)].record)

\* Both runs have finished after upserting different records for one url, the
\* first commit made while the other run was inside its own upsert of that url.
C10_Witness ==
  /\ \A w \in Runs : wpc[w] = "idle"
  /\ \E i, j \in 1..Len(commits) :
       /\ i < j
       /\ commits[i].run # commits[j].run
       /\ commits[i].record.url = commits[j].record.url
       /\ commits[i].record # commits[j].record
       /\ commits[i].overlapped
       /\ j = LastCommit(commits[j].record.url)
       /\ \E row \in table : row.url = commits[j].record.url
                               /\ SameFields(row, commits[j].record)

====
